---- MODULE Spec2Model ----
(***************************************************************************)
(* Reverse TCP tunnel: the redirector (src/server/redirector.ts) and the   *)
(* starter (src/unnamed/part_003).  A run is one process: either the       *)
(* redirector or the starter, with its peers (control peer, public         *)
(* clients, backends, the network) as the environment.                     *)
(*                                                                         *)
(* Bytes are not enumerated.  A buffer is a sequence of slices             *)
(* [src, n, off, len]: len bytes, starting at offset off, of the n-th      *)
(* chunk that came from origin src.  Every byte of every chunk is taken to *)
(* be distinct content, and a digest to be injective on content.           *)
(***************************************************************************)
EXTENDS Integers, Sequences, FiniteSets, TLC

VARIABLES
  program,          \* which process runs: "redirector" or "starter"
  ports,            \* redirector: let ports: null | number[]
  servers,          \* redirector: Map<number, Server>
  connections,      \* both: Map<UUID, Socket>, id -> index of the socket
  shredded_packets, \* both: Map<UUID, Map<number, Buffer>>
  main_sockets,     \* redirector: the accepted control sockets (main_socket)
  pub_sockets,      \* redirector: the accepted public sockets (socket)
  socket,           \* starter: the control socket
  conn_sockets,     \* starter: the backend sockets (conn_socket)
  timers,           \* starter: reconnect callbacks that setTimeout has pending
  console,          \* what the handler that ran last logged (level >= INFO)
  process,          \* "running", or "crashed" after an uncaught exception
  events            \* how many handlers have run and changed the state

vars == <<program, ports, servers, connections, shredded_packets,
          main_sockets, pub_sockets, socket, conn_sockets, timers, console, process,
          events>>

starter_vars == <<socket, conn_sockets, timers>>

\* the state of the program, without what it logged
state == <<ports, servers, connections, shredded_packets, main_sockets,
           pub_sockets, socket, conn_sockets, timers, process>>

----------------------------------------------------------------------------
(* Bounds of the model *)

MaxMain == 2     \* control connections the redirector accepts in a run
MaxPub == 2      \* public connections the redirector accepts in a run
MaxReads == 2    \* chunks read from one public or backend socket
MaxWrites == 2   \* write calls recorded on one public or backend socket
MaxOut == 3      \* frames recorded on one control socket
MaxBackend == 2  \* backend connections the starter opens in a run
MaxEvents == 7   \* handlers that change the state in a run of the process

----------------------------------------------------------------------------
(* Program constants and configuration *)

MAX_PACKET_SIZE == 384

config_auth == "hunter2"

\* a nullable value is the empty set (null) or the set of the one value it holds
NULL == {}
Some(v) == {v}
UNDEFINED == "undefined"
NaN == 0 - 1

Min(a, b) == IF a < b THEN a ELSE b

----------------------------------------------------------------------------
(* Text tokens *)

UUID1 == "11111111-1111-4111-8111-111111111111"
UUID2 == "22222222-2222-4222-8222-222222222222"
UUIDs == {UUID1, UUID2}

\* s.split(sep, limit).length for a one-character sep
SplitLength(s, sep, limit) ==
  Min(Cardinality({i \in 1..Len(s) : SubSeq(s, i, i) = sep}) + 1, limit)

PacketType == {"DATA", "END", "CLOSE", "AUTH", "SHRED"}

isPacketType(data) == data \in PacketType

isUUID(data) ==
  /\ data # UNDEFINED
  /\ Len(data) = 36
  /\ SplitLength(data, "-", 6) = 5

\* const [a, b, c] = text.split(' ', limit): the i-th token, or undefined
Tok(toks, limit, i) ==
  IF i <= Min(Len(toks), limit) THEN toks[i] ELSE UNDEFINED

Numbers == 0..4 \cup {385, 8080, 8081}

parseInt(s) ==
  IF \E n \in Numbers : ToString(n) = s
  THEN CHOOSE n \in Numbers : ToString(n) = s
  ELSE NaN

\* ports_str.split(';') for the port lists of the model
SplitPorts(s) ==
  CASE s = "8080" -> <<"8080">>
    [] s = "8080;8081" -> <<"8080", "8081">>
    [] s = "8080;http" -> <<"8080", "http">>
    [] s = "8080;8080" -> <<"8080", "8080">>
    [] OTHER -> <<s>>

----------------------------------------------------------------------------
(* Buffers *)

Slice(src, n, off, len) == [src |-> src, n |-> n, off |-> off, len |-> len]

RECURSIVE BufLen(_)
BufLen(b) == IF b = <<>> THEN 0 ELSE b[1].len + BufLen(Tail(b))

\* the buffer without its first k bytes
RECURSIVE Drop(_, _)
Drop(b, k) ==
  IF b = <<>> \/ k <= 0 THEN b
  ELSE IF b[1].len <= k THEN Drop(Tail(b), k - b[1].len)
  ELSE <<[b[1] EXCEPT !.off = @ + k, !.len = @ - k]>> \o Tail(b)

\* the first k bytes of the buffer
RECURSIVE Take(_, _)
Take(b, k) ==
  IF b = <<>> \/ k <= 0 THEN <<>>
  ELSE IF b[1].len <= k THEN <<b[1]>> \o Take(Tail(b), k - b[1].len)
  ELSE <<[b[1] EXCEPT !.len = k]>>

\* data.subarray(start, end)
subarray(data, start, end) == Take(Drop(data, start), Min(end, BufLen(data)) - start)

\* adjacent slices of one chunk are one run of bytes
RECURSIVE Norm(_)
Norm(b) ==
  IF b = <<>> THEN <<>>
  ELSE IF b[1].len = 0 THEN Norm(Tail(b))
  ELSE IF Len(b) = 1 THEN b
  ELSE LET r == Norm(Tail(b)) IN
       IF /\ r # <<>>
          /\ r[1].src = b[1].src /\ r[1].n = b[1].n
          /\ r[1].off = b[1].off + b[1].len
       THEN <<[b[1] EXCEPT !.len = @ + r[1].len]>> \o Tail(r)
       ELSE <<b[1]>> \o r

\* Buffer.concat(list)
RECURSIVE concat(_)
concat(list) == IF list = <<>> THEN <<>> ELSE Norm(list[1] \o concat(Tail(list)))

\* the bytes of a buffer, written out
RECURSIVE Hex(_)
Hex(b) ==
  IF b = <<>> THEN ""
  ELSE b[1].src \o "#" \o ToString(b[1].n) \o "@" \o ToString(b[1].off)
       \o "+" \o ToString(b[1].len) \o ";" \o Hex(Tail(b))

\* createHash(alg).update(data).digest('hex'): buffers of different bytes have
\* different digests
digest(alg, data) == alg \o ":" \o Hex(Norm(data))

\* whether b is a prefix of c, byte for byte
IsPrefix(b, c) == Norm(b) = Take(Norm(c), BufLen(b))

----------------------------------------------------------------------------
(* Frames: the text tokens before the first separator, and the bytes after *)

Frame(toks, body) == [toks |-> toks, body |-> body]

\* the bytes of a frame as they go on a socket: header, separator, body
Wire(f) == <<Slice("header " \o ToString(f.toks), 0, 0, 1)>> \o f.body

\* redirector: appendHeader(action, id, data, port, packet_no, total)
appendHeader(action, id, data, port, packet_no, total) ==
  CASE action \in {"CLOSE", "END"} -> Frame(<<action, id>>, <<>>)
    [] action = "AUTH" -> Frame(<<action, id, data>>, <<>>)
    [] action = "DATA" ->
         Frame(<<action, id, ToString(port),
                 digest("sha1", data), digest("sha512", data)>>, data)
    [] action = "SHRED" ->
         Frame(<<action, id, ToString(port),
                 digest("sha1", data), digest("sha512", data),
                 ToString(packet_no), ToString(total)>>, data)

\* starter: appendHeader(action, id, data, packet_no, total)
starter_appendHeader(action, id, data, packet_no, total) ==
  CASE action \in {"CLOSE", "END"} -> Frame(<<action, id>>, <<>>)
    [] action = "AUTH" -> Frame(<<action, id, data>>, <<>>)
    [] action = "DATA" ->
         Frame(<<action, id, digest("sha1", data), digest("sha512", data)>>, data)
    [] action = "SHRED" ->
         Frame(<<action, id, digest("sha1", data), digest("sha512", data),
                 ToString(packet_no), ToString(total)>>, data)

----------------------------------------------------------------------------
(* Maps *)

EmptyMap == <<>>

Has(map, k) == k \in DOMAIN map

Set(map, k, v) == [x \in DOMAIN map \cup {k} |-> IF x = k THEN v ELSE map[x]]

Delete(map, k) == [x \in DOMAIN map \ {k} |-> map[x]]

----------------------------------------------------------------------------
(* Sockets *)

\* a write that goes out whatever the state of the socket is
WriteAlways(socks, c, f) == [socks EXCEPT ![c].out = Append(@, f)]

\* sock.write(bytes) on a control socket: queued while the socket is writable
Write(socks, c, f) ==
  IF socks[c].state = "open" THEN [socks EXCEPT ![c].out = Append(@, f)] ELSE socks

\* room left for the frames a handler writes on a control socket
CanWrite(sock, k) == sock.state = "open" => Len(sock.out) + k <= MaxOut

\* sock.write(bytes) on a public or backend socket
Deliver(socks, p, bytes) ==
  IF socks[p].state = "open" THEN [socks EXCEPT ![p].written = Append(@, bytes)]
  ELSE socks

CanDeliver(sock, k) == sock.state = "open" => Len(sock.written) + k <= MaxWrites

\* main_socket.end(): the writable side ends, reads go on until the peer closes
End(socks, c) ==
  IF socks[c].state = "open" THEN [socks EXCEPT ![c].state = "ended"] ELSE socks

\* what kind of read a control socket got first
FirstRead(sock, data) ==
  IF sock.first # "none" THEN sock.first
  ELSE IF ports # NULL THEN "frame"
  ELSE LET n == Len(data.toks) IN
       IF Tok(data.toks, n, 2) # config_auth THEN "wrong secret"
       ELSE IF Tok(data.toks, n, 1) = "AUTH" /\ Tok(data.toks, n, 3) \notin {UNDEFINED, ""}
            THEN "AUTH"
       ELSE "other"

----------------------------------------------------------------------------
(* What the environment sends *)

PortLists == {"8080;8081", ""}

Secrets == {config_auth, "letmein"}

\* first reads of a control connection: action, secret, port list
AuthReads ==
  {Frame(<<a, config_auth, p>>, <<>>) : a \in {"AUTH", "DATA"}, p \in PortLists}
  \cup {Frame(<<a, s, "8080;8081">>, <<>>) : a \in {"AUTH", "HELLO"}, s \in Secrets}
  \cup {Frame(<<"AUTH">>, <<>>)}

\* the k-th chunk the peer read from its socket of session id
PeerChunk(id, k) == <<Slice(id, k, 0, 100)>>

\* a payload as the peer of prog frames it
PeerFrame(prog, action, id, data, packet_no, total) ==
  IF prog = "redirector"
  THEN starter_appendHeader(action, id, data, packet_no, total)
  ELSE appendHeader(action, id, data, 8080, packet_no, total)

\* the frame with one of its digests damaged on the way
Damaged(f, i) == [f EXCEPT !.toks[i] = "0" \o @]

\* where the SHA-1 digest stands in the header of a frame of the peer of prog
Sha1At(prog) == IF prog = "redirector" THEN 3 ELSE 4

\* two frames that arrive in one read: the second one follows the body of the first
Coalesced(f, g) == [f EXCEPT !.body = @ \o Wire(g)]

FrameIds == UUIDs \cup {"0000"}

GoodFrames(prog) ==
  {PeerFrame(prog, "DATA", id, PeerChunk(id, 1), 0, 0) : id \in FrameIds}
  \cup {PeerFrame(prog, "SHRED", id, PeerChunk(id, 1), n, 2) : id \in UUIDs, n \in 0..1}
  \cup {PeerFrame(prog, "END", id, <<>>, 0, 0) : id \in UUIDs}
  \cup {PeerFrame(prog, "CLOSE", id, <<>>, 0, 0) : id \in UUIDs}

\* a fragment that declares another total than the other fragments of its id
MismatchedShred(prog) == PeerFrame(prog, "SHRED", UUID1, PeerChunk(UUID1, 1), 1, 3)

\* a frame of packet type END with a body and the digests of that body
EndWithBody(prog) ==
  [PeerFrame(prog, "DATA", UUID1, PeerChunk(UUID1, 1), 0, 0) EXCEPT !.toks[1] = "END"]

BadFrames(prog) ==
  {MismatchedShred(prog), EndWithBody(prog)}
  \cup
  {Damaged(PeerFrame(prog, "DATA", id, PeerChunk(id, 1), 0, 0), Sha1At(prog)) :
     id \in UUIDs}
  \cup {Damaged(PeerFrame(prog, "SHRED", UUID1, PeerChunk(UUID1, 1), n, 2),
                Sha1At(prog) + 1) : n \in 0..1}
  \cup {Coalesced(PeerFrame(prog, "DATA", UUID1, PeerChunk(UUID1, 1), 0, 0),
                  PeerFrame(prog, "DATA", other, PeerChunk(other, 1), 0, 0)) :
          other \in UUIDs}

\* what the redirector may read from a control socket
\* first reads whose port list holds a token that is not a number
BadPortReads ==
  {Frame(<<a, config_auth, "8080;http">>, <<>>) : a \in {"AUTH", "DATA"}}

\* a first read that advertises the same port twice
DuplicatePortReads == {Frame(<<"DATA", config_auth, "8080;8080">>, <<>>)}

RedirectorReads ==
  AuthReads \cup BadPortReads \cup DuplicatePortReads \cup GoodFrames("redirector") \cup BadFrames("redirector")

\* what the starter may read from its control socket
StarterReads == AuthReads \cup GoodFrames("starter") \cup BadFrames("starter")

ControlReads == IF program = "redirector" THEN RedirectorReads ELSE StarterReads

ChunkLengths == {MAX_PACKET_SIZE, 500}

----------------------------------------------------------------------------
(* The event loop: one handler runs at a time, until the process dies *)

Handler(prog) ==
  /\ program = prog /\ process = "running"
  /\ events < MaxEvents
  /\ UNCHANGED program

\* the handlers that changed the state of the program are counted
Counted ==
  events' = IF state' = state THEN events ELSE events + 1

----------------------------------------------------------------------------
(* The redirector: src/server/redirector.ts *)

\* redirector.on('connection', main_socket => ...)
Connection ==
  /\ Handler("redirector")
  /\ Len(main_sockets) < MaxMain
  /\ main_sockets' = Append(main_sockets, [state |-> "open", out |-> <<>>, first |-> "none"])
  /\ console' = {"Received connection from"}
  /\ UNCHANGED <<ports, servers, connections, shredded_packets,
                 pub_sockets, starter_vars, process>>
  /\ Counted

\* the first check of an unauthenticated read (redirector.ts:108)
InvalidAuthAction(action) ==
  action = UNDEFINED \/ action = "" \/ ~isPacketType(action) \/ action = "AUTH"

\* the second check of an unauthenticated read (redirector.ts:115)
InvalidAuthSecret(auth) ==
  auth = UNDEFINED \/ auth = "" \/ auth # config_auth

\* whether a listener of this process is bound to the port
Bound(map, port) == Has(map, port) /\ map[port].listening

\* server.listen of a port of the list finds the port in use: the server emits
\* 'error' (EADDRINUSE), and no listener is registered for that event
RECURSIVE BindFails(_, _)
BindFails(map, list) ==
  /\ list # <<>> /\ list[1] # NaN
  /\ \/ Bound(map, list[1])
     \/ BindFails(Set(map, list[1], [listening |-> TRUE, owner |-> 0]), Tail(list))

\* for (const port of ports) { servers.set(port, createServer()); server.listen(port) }
\* server.listen(NaN) throws ERR_SOCKET_BAD_PORT and the loop goes no further; a
\* server whose port is in use replaces the entry of the port and does not listen
RECURSIVE Listen(_, _, _)
Listen(map, list, c) ==
  IF list = <<>> THEN map
  ELSE IF list[1] = NaN THEN Set(map, NaN, [listening |-> FALSE, owner |-> c])
  ELSE IF Bound(map, list[1])
  THEN Listen(Set(map, list[1], [listening |-> FALSE, owner |-> c]), Tail(list), c)
  ELSE Listen(Set(map, list[1], [listening |-> TRUE, owner |-> c]), Tail(list), c)

\* main_socket.on('data') while ports === null
Authenticate(c, data) ==
  LET n == Len(data.toks)
      action == Tok(data.toks, n, 1)
      auth == Tok(data.toks, n, 2)
      ports_str == Tok(data.toks, n, 3)
      seen == [main_sockets EXCEPT ![c].first = FirstRead(main_sockets[c], data)]
  IN
  /\ UNCHANGED <<connections, shredded_packets, pub_sockets>>
  /\ IF InvalidAuthAction(action) \/ InvalidAuthSecret(auth)
     THEN /\ console' = {"Invalid auth packet, closing connection"}
          /\ main_sockets' = End(seen, c)
          /\ UNCHANGED <<ports, servers, process>>
     ELSE IF ports_str = UNDEFINED \/ ports_str = ""
     THEN /\ console' = {"Received valid auth packet, parsing port list",
                         "Invalid port list, closing connection"}
          /\ main_sockets' = End(seen, c)
          /\ UNCHANGED <<ports, servers, process>>
     ELSE LET list == [i \in DOMAIN SplitPorts(ports_str) |->
                         parseInt(SplitPorts(ports_str)[i])] IN
          /\ main_sockets' = seen
          /\ ports' = Some(list)
          /\ servers' = Listen(servers, list, c)
          /\ IF \E i \in DOMAIN list : list[i] = NaN
             THEN \* the RangeError of server.listen leaves the 'data' handler
                  /\ console' = {"Received valid auth packet, parsing port list",
                                 "RangeError"}
                  /\ process' = "crashed"
             ELSE IF BindFails(servers, list)
             THEN \* the unhandled 'error' event of the server ends the process
                  /\ console' = {"Received valid auth packet, parsing port list",
                                 "EADDRINUSE"}
                  /\ process' = "crashed"
             ELSE /\ console' = {"Received valid auth packet, parsing port list"}
                  /\ UNCHANGED process

\* a digest check that compares the SHA-1 digest only
Sha1Only(body, sha1_dig, sha512_dig) ==
  digest("sha1", body) # sha1_dig

\* a digest check that rejects nothing
NoChecksum(body, sha1_dig, sha512_dig) == FALSE

\* if (sha1 !== sha1_dig || sha512 !== sha512_dig)
InvalidChecksum(body, sha1_dig, sha512_dig) ==
  digest("sha1", body) # sha1_dig \/ digest("sha512", body) # sha512_dig

\* a frame for an unknown id that is dropped without a reply
Ignore(socks, c, id) == socks

\* main_socket.write(appendHeader(PacketType.CLOSE, id)) for an unknown id
Reject(socks, c, id) == Write(socks, c, appendHeader("CLOSE", id, <<>>, 0, 0, 0))

\* main_socket.on('data') while ports !== null
Dispatch(c, data) ==
  LET action == Tok(data.toks, 5, 1)
      id == Tok(data.toks, 5, 2)
      sha1_dig == Tok(data.toks, 5, 3)
      sha512_dig == Tok(data.toks, 5, 4)
      packet_no == Tok(data.toks, 5, 5)
      total == Tok(data.toks, 5, 6)
      body == data.body
      seen == [main_sockets EXCEPT ![c].first = FirstRead(main_sockets[c], data)]
  IN
  /\ UNCHANGED <<ports, servers, connections>>
  /\ IF data.toks = <<>>
     THEN /\ console' = {"Invalid packet, ignoring"}
          /\ main_sockets' = seen
          /\ UNCHANGED <<pub_sockets, shredded_packets>>
     ELSE IF ~isUUID(id)
     THEN /\ console' = {"Invalid id, ignoring"}
          /\ main_sockets' = seen
          /\ UNCHANGED <<pub_sockets, shredded_packets>>
     ELSE IF ~Has(connections, id)
     THEN /\ console' = {"Connection was already closed, ignoring packet"}
          /\ CanWrite(main_sockets[c], 1)
          /\ main_sockets' = Reject(seen, c, id)
          /\ UNCHANGED <<pub_sockets, shredded_packets>>
     ELSE IF InvalidChecksum(body, sha1_dig, sha512_dig)
     THEN /\ console' = {"Invalid checksum, ignoring"}
          /\ main_sockets' = seen
          /\ UNCHANGED <<pub_sockets, shredded_packets>>
     ELSE IF ~isPacketType(action)
     THEN /\ console' = {"Invalid action, ignoring"}
          /\ main_sockets' = seen
          /\ UNCHANGED <<pub_sockets, shredded_packets>>
     ELSE IF packet_no = UNDEFINED \/ packet_no = ""
     THEN /\ console' = {"->"}
          /\ main_sockets' = seen
          /\ CanDeliver(pub_sockets[connections[id]], 1)
          /\ pub_sockets' = Deliver(pub_sockets, connections[id], body)
          /\ UNCHANGED shredded_packets
     ELSE /\ main_sockets' = seen
          /\ IF Has(shredded_packets, id)
             THEN LET s_packet == Set(shredded_packets[id], parseInt(packet_no), body) IN
                  /\ shredded_packets' = Set(shredded_packets, id, s_packet)
                  /\ IF Cardinality(DOMAIN s_packet) = parseInt(total)
                     THEN /\ console' = {"Got shredded packet",
                                         "Got all shredded packets, reassembling"}
                          /\ CanDeliver(pub_sockets[connections[id]], 1)
                          /\ pub_sockets' =
                               Deliver(pub_sockets, connections[id],
                                       concat([i \in 1..parseInt(total) |-> s_packet[i - 1]]))
                     ELSE /\ console' = {"Got shredded packet"}
                          /\ UNCHANGED pub_sockets
             ELSE /\ console' = {"Got shredded packet"}
                  /\ shredded_packets' =
                       Set(shredded_packets, id, Set(EmptyMap, parseInt(packet_no), body))
                  /\ UNCHANGED pub_sockets

\* main_socket.on('data', data => ...)
MainData(c, data) ==
  /\ Handler("redirector")
  /\ c \in DOMAIN main_sockets
  /\ main_sockets[c].state \in {"open", "ended"}
  /\ IF ports = NULL THEN Authenticate(c, data)
     ELSE Dispatch(c, data) /\ UNCHANGED process
  /\ UNCHANGED starter_vars
  /\ Counted

\* main_socket.on('close', error => ...)
MainClose(c, error) ==
  /\ Handler("redirector")
  /\ c \in DOMAIN main_sockets
  /\ main_sockets[c].state \in {"open", "ended"}
  /\ main_sockets' = [main_sockets EXCEPT ![c].state = "closed"]
  /\ IF error
     THEN /\ console' = {}
          /\ UNCHANGED <<ports, servers>>
     ELSE /\ console' = {"Client closed connection, restarting it"}
          /\ ports' = NULL
          /\ servers' = [port \in DOMAIN servers |->
                           [servers[port] EXCEPT !.listening = FALSE]]
  /\ UNCHANGED <<connections, shredded_packets, pub_sockets, starter_vars,
                 process>>
  /\ Counted

\* server.on('connection', socket => ...) of the listener of port; id is what
\* randomUUID() returned last, after the ids met in connections
PublicConnection(port, id) ==
  /\ Handler("redirector")
  /\ Has(servers, port) /\ servers[port].listening
  /\ Len(pub_sockets) < MaxPub
  /\ ~Has(connections, id)
  /\ pub_sockets' = Append(pub_sockets,
       [id |-> id, port |-> port, owner |-> servers[port].owner, state |-> "open",
        reads |-> <<>>, written |-> <<>>])
  /\ connections' = Set(connections, id, Len(pub_sockets) + 1)
  /\ console' = {"Received connection from"}
  /\ UNCHANGED <<ports, servers, shredded_packets, main_sockets,
                 starter_vars, process>>
  /\ Counted

\* the bytes of the k-th chunk read from public socket p
PublicChunk(p, k, len) == <<Slice("public " \o ToString(p), k, 0, len)>>

\* for (let i = 0; i < data.length; i += MAX_PACKET_SIZE) packets.push(data.subarray(...))
RECURSIVE Split(_, _)
Split(data, i) ==
  IF i >= BufLen(data) THEN <<>>
  ELSE <<subarray(data, i, i + MAX_PACKET_SIZE)>> \o Split(data, i + MAX_PACKET_SIZE)

\* packets.forEach((packet, i) => socket.write(appendHeader(SHRED, id, packet, port, i, total)))
RECURSIVE WriteShreds(_, _, _, _)
WriteShreds(socks, p, packets, i) ==
  IF i >= Len(packets) THEN socks
  ELSE WriteShreds(
         Deliver(socks, p, Wire(appendHeader("SHRED", socks[p].id, packets[i + 1],
                                             socks[p].port, i, Len(packets)))),
         p, packets, i + 1)

\* socket.on('data', data => ...) of a public socket
PublicData(p, len) ==
  LET sock == pub_sockets[p]
      data == PublicChunk(p, Len(sock.reads) + 1, len)
      read == [pub_sockets EXCEPT ![p].reads = Append(@, data)]
  IN
  /\ Handler("redirector")
  /\ p \in DOMAIN pub_sockets /\ sock.state = "open"
  /\ Len(sock.reads) < MaxReads
  /\ IF BufLen(data) > MAX_PACKET_SIZE
     THEN /\ console' = {"->", "Packet too large, splitting"}
          /\ CanDeliver(sock, Len(Split(data, 0)))
          /\ pub_sockets' = WriteShreds(read, p, Split(data, 0), 0)
          /\ UNCHANGED main_sockets
     ELSE /\ console' = {"->"}
          /\ CanWrite(main_sockets[sock.owner], 1)
          /\ pub_sockets' = read
          /\ main_sockets' = Write(main_sockets, sock.owner,
                                   appendHeader("DATA", sock.id, data, sock.port, 0, 0))
  /\ UNCHANGED <<ports, servers, connections, shredded_packets,
                 starter_vars, process>>
  /\ Counted

\* a close handler of a public socket that forgets the CLOSE frame
PublicCloseSilent(p) ==
  /\ Handler("redirector")
  /\ p \in DOMAIN pub_sockets /\ pub_sockets[p].state = "open"
  /\ console' = {"Closing connection"}
  /\ pub_sockets' = [pub_sockets EXCEPT ![p].state = "closed"]
  /\ connections' = Delete(connections, pub_sockets[p].id)
  /\ UNCHANGED <<ports, servers, shredded_packets, main_sockets, starter_vars, process>>
  /\ Counted

\* a close handler of a public socket that leaves its id in the table
PublicCloseKeep(p) ==
  LET sock == pub_sockets[p] IN
  /\ Handler("redirector")
  /\ p \in DOMAIN pub_sockets /\ sock.state = "open"
  /\ CanWrite(main_sockets[sock.owner], 1)
  /\ console' = {"Closing connection"}
  /\ pub_sockets' = [pub_sockets EXCEPT ![p].state = "closed"]
  /\ main_sockets' = Write(main_sockets, sock.owner,
                           appendHeader("CLOSE", sock.id, <<>>, 0, 0, 0))
  /\ UNCHANGED <<ports, servers, connections, shredded_packets, starter_vars, process>>
  /\ Counted

\* socket.on('close', () => ...) of a public socket
PublicClose(p) ==
  LET sock == pub_sockets[p] IN
  /\ Handler("redirector")
  /\ p \in DOMAIN pub_sockets /\ sock.state = "open"
  /\ CanWrite(main_sockets[sock.owner], 1)
  /\ console' = {"Closing connection"}
  /\ pub_sockets' = [pub_sockets EXCEPT ![p].state = "closed"]
  /\ main_sockets' = Write(main_sockets, sock.owner,
                           appendHeader("CLOSE", sock.id, <<>>, 0, 0, 0))
  /\ connections' = Delete(connections, sock.id)
  /\ UNCHANGED <<ports, servers, shredded_packets, starter_vars, process>>
  /\ Counted

\* the 'error' event of a public socket: no listener is registered for it
\* (redirector.ts:133-169), so node throws the error and the process ends
PublicError(p) ==
  /\ Handler("redirector")
  /\ p \in DOMAIN pub_sockets /\ pub_sockets[p].state = "open"
  /\ console' = {"Unhandled 'error' event"}
  /\ process' = "crashed"
  /\ UNCHANGED <<ports, servers, connections, shredded_packets, main_sockets,
                 pub_sockets, starter_vars>>
  /\ Counted

----------------------------------------------------------------------------
(* The starter: src/unnamed/part_003 *)

\* config.targets.map(target => target.port)
config_targets == <<8080, 8081>>

\* ports.join(';')
RECURSIVE join(_)
join(list) ==
  IF list = <<>> THEN ""
  ELSE IF Len(list) = 1 THEN ToString(list[1])
  ELSE ToString(list[1]) \o ";" \o join(Tail(list))

\* socket.write(bytes) on the control socket of the starter
SocketWrite(sock, f) == Write(<<sock>>, 1, f)[1]

\* function onConnect(s)
onConnect ==
  /\ Handler("starter")
  /\ socket.state = "connecting" /\ socket.once
  /\ console' = {"Connected to"}
  /\ socket' = SocketWrite([socket EXCEPT !.state = "open", !.once = FALSE],
                           starter_appendHeader("AUTH", config_auth, join(config_targets), 0, 0))
  /\ UNCHANGED <<ports, servers, connections, shredded_packets, main_sockets,
                 pub_sockets, conn_sockets, timers, process>>
  /\ Counted

\* a connect for every frame, whether the table has the id or not
ConnectAlways(id, port) ==
  Append(conn_sockets, [id |-> id, port |-> port, state |-> "open",
                        reads |-> <<>>, written |-> <<>>])

\* const conn_socket = connect(port, ...); connections.set(id, conn_socket)
Connect(id, port) ==
  IF Has(connections, id) THEN conn_sockets
  ELSE Append(conn_sockets, [id |-> id, port |-> port, state |-> "open",
                             reads |-> <<>>, written |-> <<>>])

\* connections.get(id) after the connect of the handler
Target(id) == IF Has(connections, id) THEN connections[id] ELSE Len(conn_sockets) + 1

\* if (sha1 !== sha1_dig || sha512 !== sha512_dig)
starter_InvalidChecksum(body, sha1_dig, sha512_dig) ==
  digest("sha1", body) # sha1_dig \/ digest("sha512", body) # sha512_dig

\* a CLOSE frame that leaves the backend socket as it is
KeepTarget(socks, id) == socks

\* connections.get(id)?.end()
EndTarget(socks, id) ==
  IF Has(connections, id) THEN End(socks, connections[id]) ELSE socks

\* socket.on('data', data => ...)
SocketData(data) ==
  LET action == Tok(data.toks, 7, 1)
      id == Tok(data.toks, 7, 2)
      port_str == Tok(data.toks, 7, 3)
      sha1_dig == Tok(data.toks, 7, 4)
      sha512_dig == Tok(data.toks, 7, 5)
      packet_no == Tok(data.toks, 7, 6)
      total == Tok(data.toks, 7, 7)
      body == data.body
      port == parseInt(port_str)
      connected == Connect(id, port)
  IN
  /\ Handler("starter")
  /\ socket.state = "open"
  /\ UNCHANGED <<ports, servers, main_sockets, pub_sockets, socket, timers>>
  /\ IF ~isPacketType(action)
     THEN /\ console' = {"Invalid action, ignoring"}
          /\ UNCHANGED <<connections, conn_sockets, shredded_packets, process>>
     ELSE IF ~isUUID(id)
     THEN /\ console' = {"Invalid id, ignoring"}
          /\ UNCHANGED <<connections, conn_sockets, shredded_packets, process>>
     ELSE IF action = "CLOSE"
     THEN /\ console' = {"Closing connection"}
          /\ conn_sockets' = EndTarget(conn_sockets, id)
          /\ connections' = Delete(connections, id)
          /\ UNCHANGED <<shredded_packets, process>>
     ELSE IF port_str = UNDEFINED
     THEN /\ console' = {"Invalid port, ignoring"}
          /\ UNCHANGED <<connections, conn_sockets, shredded_packets, process>>
     ELSE IF starter_InvalidChecksum(body, sha1_dig, sha512_dig)
     THEN /\ console' = {"Invalid checksum, ignoring"}
          /\ UNCHANGED <<connections, conn_sockets, shredded_packets, process>>
     ELSE /\ Len(connected) <= MaxBackend
          /\ connections' = Set(connections, id, Target(id))
          /\ IF packet_no = UNDEFINED \/ packet_no = ""
             THEN /\ console' = {"Checksums match", "Received data from connection"}
                  /\ CanDeliver(connected[Target(id)], 1)
                  /\ conn_sockets' = Deliver(connected, Target(id), body)
                  /\ UNCHANGED <<shredded_packets, process>>
             ELSE IF ~Has(shredded_packets, id)
             THEN /\ console' = {"Checksums match", "Got shredded packet"}
                  /\ conn_sockets' = connected
                  /\ shredded_packets' =
                       Set(shredded_packets, id, Set(EmptyMap, parseInt(packet_no), body))
                  /\ UNCHANGED process
             ELSE LET s_packet == Set(shredded_packets[id], parseInt(packet_no), body)
                      indices == 0..(parseInt(total) - 1)
                  IN
                  /\ shredded_packets' = Set(shredded_packets, id, s_packet)
                  /\ IF Cardinality(DOMAIN s_packet) # parseInt(total)
                     THEN /\ console' = {"Checksums match", "Got shredded packet"}
                          /\ conn_sockets' = connected
                          /\ UNCHANGED process
                     ELSE IF \E i \in indices : ~Has(s_packet, i)
                     THEN \* Buffer.concat throws on the missing fragment
                          /\ console' = {"Got all shredded packets, reassembling",
                                         "TypeError"}
                          /\ conn_sockets' = connected
                          /\ process' = "crashed"
                     ELSE /\ console' = {"Got all shredded packets, reassembling"}
                          /\ CanDeliver(connected[Target(id)], 1)
                          /\ conn_sockets' =
                               Deliver(connected, Target(id),
                                       concat([i \in 1..parseInt(total) |-> s_packet[i - 1]]))
                          /\ UNCHANGED process
  /\ Counted

\* the 'connect' event of a socket.connect(port, address) that has no listener
\* left: connect(port, address, onConnect) registered onConnect for one event
SocketConnect ==
  /\ Handler("starter")
  /\ socket.state = "connecting" /\ ~socket.once
  /\ console' = {}
  /\ socket' = [socket EXCEPT !.state = "open"]
  /\ UNCHANGED <<ports, servers, connections, shredded_packets, main_sockets,
                 pub_sockets, conn_sockets, timers, process>>
  /\ Counted

\* socket.on('error', data => setTimeout(() => ..., 5000)); the socket is
\* destroyed and its 'close' event follows with error = true
SocketError ==
  /\ Handler("starter")
  /\ socket.state \in {"connecting", "open"}
  /\ console' = {"Error while connecting to target:"}
  /\ socket' = [socket EXCEPT !.state = "errored"]
  /\ timers' = timers + 1
  /\ UNCHANGED <<ports, servers, connections, shredded_packets, main_sockets,
                 pub_sockets, conn_sockets, process>>
  /\ Counted

\* the callback of setTimeout: socket.connect(port, address)
Reconnect ==
  /\ Handler("starter")
  /\ timers > 0 /\ socket.state = "closed"
  /\ console' = {"Attempting to reconnect to target"}
  /\ timers' = timers - 1
  /\ socket' = [socket EXCEPT !.state = "connecting"]
  /\ UNCHANGED <<ports, servers, connections, shredded_packets, main_sockets,
                 pub_sockets, conn_sockets, process>>
  /\ Counted

\* socket.on('close', error => ...)
SocketClose(error) ==
  /\ Handler("starter")
  /\ socket.state = IF error THEN "errored" ELSE "open"
  /\ socket' = [socket EXCEPT !.state = "closed"]
  /\ console' = IF error THEN {} ELSE {"Server closed connection, finishing it up"}
  /\ UNCHANGED <<ports, servers, connections, shredded_packets, main_sockets,
                 pub_sockets, conn_sockets, timers, process>>
  /\ Counted

\* the bytes of the k-th chunk read from backend socket b
BackendChunk(b, k, len) == <<Slice("backend " \o ToString(b), k, 0, len)>>

\* for (let i = 0; i < length; i += MAX_PACKET_SIZE)
\*   socket.write(appendHeader(SHRED, id, Buffer.from(data, i, MAX_PACKET_SIZE), i + 1, total))
\* Buffer.from(buffer, ...) copies the whole buffer, whatever the other arguments
RECURSIVE SendShreds(_, _, _, _, _)
SendShreds(sock, id, data, i, total) ==
  IF i >= BufLen(data) THEN sock
  ELSE SendShreds(SocketWrite(sock, starter_appendHeader("SHRED", id, data, i + 1, total)),
                  id, data, i + MAX_PACKET_SIZE, total)

\* Math.ceil(length / MAX_PACKET_SIZE)
Ceil(length) == (length + MAX_PACKET_SIZE - 1) \div MAX_PACKET_SIZE

\* conn_socket.on('data', data => ...)
ConnData(b, len) ==
  LET sock == conn_sockets[b]
      data == BackendChunk(b, Len(sock.reads) + 1, len)
  IN
  /\ Handler("starter")
  /\ b \in DOMAIN conn_sockets /\ sock.state \in {"open", "ended"}
  /\ Len(sock.reads) < MaxReads
  /\ conn_sockets' = [conn_sockets EXCEPT ![b].reads = Append(@, data)]
  /\ IF BufLen(data) > MAX_PACKET_SIZE
     THEN /\ console' = {"Received data from target", "Packet too large, splitting"}
          /\ CanWrite(socket, Ceil(BufLen(data)))
          /\ socket' = SendShreds(socket, sock.id, data, 0, Ceil(BufLen(data)))
     ELSE /\ console' = {"Received data from target"}
          /\ CanWrite(socket, 1)
          /\ socket' = SocketWrite(socket, starter_appendHeader("DATA", sock.id, data, 0, 0))
  /\ UNCHANGED <<ports, servers, connections, shredded_packets, main_sockets,
                 pub_sockets, timers, process>>
  /\ Counted

\* conn_socket.on('close', () => connections.delete(id))
ConnClose(b) ==
  LET sock == conn_sockets[b] IN
  /\ Handler("starter")
  /\ b \in DOMAIN conn_sockets /\ sock.state \in {"open", "ended"}
  /\ console' = {"Closing connection"}
  /\ conn_sockets' = [conn_sockets EXCEPT ![b].state = "closed"]
  /\ connections' = Delete(connections, sock.id)
  /\ UNCHANGED <<ports, servers, shredded_packets, main_sockets, pub_sockets,
                 socket, timers, process>>
  /\ Counted

\* conn_socket.on('error', data => c.error(...)), and the 'close' event node emits
\* right after the 'error' event of a socket
ConnError(b) ==
  LET sock == conn_sockets[b] IN
  /\ Handler("starter")
  /\ b \in DOMAIN conn_sockets /\ sock.state \in {"open", "ended"}
  /\ console' = {"error.message", "Closing connection"}
  /\ conn_sockets' = [conn_sockets EXCEPT ![b].state = "closed"]
  /\ connections' = Delete(connections, sock.id)
  /\ UNCHANGED <<ports, servers, shredded_packets, main_sockets, pub_sockets,
                 socket, timers, process>>
  /\ Counted

----------------------------------------------------------------------------
(* The redirector of src/unnamed/part_005: a frame ends with the bytes of    *)
(* the secret, and a payload that comes without them is collected over the   *)
(* following reads (isOnSplitupPhase).  A run of it is a run of its own.     *)

\* const AUTH_BUFFER = Buffer.from(config.auth)
AUTH_BUFFER == <<Slice(config_auth, 0, 0, Len(config_auth))>>

\* hex_raw.endsWith(AUTH_HEX): the bytes of a chunk never spell the secret
endsWith(bytes, suffix) == bytes # <<>> /\ <<bytes[Len(bytes)]>> = suffix

\* part_005: buildPacket(action, id, data, port)
buildPacket(action, id, data, port) ==
  CASE action = "CLOSE" -> Frame(<<action, id>>, <<>>)
    [] action = "DATA" ->
         Frame(<<action, id, ToString(port), digest("sha1", data), digest("sha512", data)>>,
               data \o AUTH_BUFFER)

\* a DATA frame as the starter of that protocol builds it
starter_buildPacket(id, data) ==
  Frame(<<"DATA", id, digest("sha1", data), digest("sha512", data)>>, data \o AUTH_BUFFER)

\* the bytes of a read: a read without header tokens is a run of payload bytes
Bytes(data) == IF data.toks = <<>> THEN data.body ELSE Wire(data)

\* let isOnSplitupPhase = [false, null]
NoSplitup == [on |-> FALSE, buf |-> <<>>, sha1 |-> "", sha512 |-> "", socket |-> 0]

\* how many bytes of a split payload come with its header
FirstPartLength == 60

\* what the control peer of part_005 may send once the session is established:
\* whole frames, a frame with a damaged digest, and the payload of UUID1 in two
\* reads, the second one whole or with its first byte lost
SplitupFrames ==
  {starter_buildPacket(id, PeerChunk(id, 1)) : id \in UUIDs}
  \cup {Damaged(starter_buildPacket(UUID1, PeerChunk(UUID1, 1)), 3)}
  \cup {Frame(<<"DATA", UUID1, digest("sha1", PeerChunk(UUID1, 1)),
                digest("sha512", PeerChunk(UUID1, 1))>>,
              Take(PeerChunk(UUID1, 1), FirstPartLength))}
  \cup {Frame(<<>>, Drop(PeerChunk(UUID1, 1), FirstPartLength + lost) \o AUTH_BUFFER) :
          lost \in 0..1}

SplitupReads == AuthReads \cup SplitupFrames

\* redirector.on('connection', main_socket => ...)
Splitup_Connection ==
  /\ Handler("part_005")
  /\ Len(main_sockets) < MaxMain
  /\ main_sockets' = Append(main_sockets,
       [state |-> "open", out |-> <<>>, isOnSplitupPhase |-> NoSplitup])
  /\ console' = {"Received connection from"}
  /\ UNCHANGED <<ports, servers, connections, shredded_packets,
                 pub_sockets, starter_vars, process>>
  /\ Counted

\* main_socket.on('data') while ports === null
Splitup_Authenticate(c, data) ==
  LET n == Len(data.toks)
      action == Tok(data.toks, n, 1)
      auth == Tok(data.toks, n, 2)
      ports_str == Tok(data.toks, n, 3)
  IN
  /\ UNCHANGED <<connections, pub_sockets>>
  /\ IF \/ action = UNDEFINED \/ action = "" \/ ~isPacketType(action) \/ action # "AUTH"
        \/ InvalidAuthSecret(auth)
     THEN /\ console' = {"Invalid auth packet, closing connection"}
          /\ main_sockets' = End(main_sockets, c)
          /\ UNCHANGED <<ports, servers>>
     ELSE IF ports_str = UNDEFINED \/ ports_str = ""
     THEN /\ console' = {"Received valid auth packet, parsing port list",
                         "Invalid port list, closing connection"}
          /\ main_sockets' = End(main_sockets, c)
          /\ UNCHANGED <<ports, servers>>
     ELSE LET list == [i \in DOMAIN SplitPorts(ports_str) |->
                         parseInt(SplitPorts(ports_str)[i])] IN
          /\ console' = {"Received valid auth packet, parsing port list"}
          /\ UNCHANGED main_sockets
          /\ ports' = Some(list)
          /\ servers' = Listen(servers, list, c)

\* if (isOnSplitupPhase[0]) { ... return }
Splitup_Collect(c, data) ==
  LET phase == main_sockets[c].isOnSplitupPhase
      bytes == Bytes(data)
      whole == concat(<<phase.buf, subarray(bytes, 0, BufLen(bytes) - BufLen(AUTH_BUFFER))>>)
  IN
  IF ~endsWith(bytes, AUTH_BUFFER)
  THEN /\ console' = {}
       /\ main_sockets' =
            [main_sockets EXCEPT ![c].isOnSplitupPhase.buf = concat(<<phase.buf, bytes>>)]
       /\ UNCHANGED pub_sockets
  ELSE IF digest("sha1", whole) # phase.sha1 \/ digest("sha512", whole) # phase.sha512
  THEN /\ console' = {"Received dead limit, splitup phase ended",
                      "Invalid hash, closing connection"}
       /\ main_sockets' = [main_sockets EXCEPT ![c].isOnSplitupPhase.buf = whole]
       /\ pub_sockets' = End(pub_sockets, phase.socket)
  ELSE /\ console' = {"Received dead limit, splitup phase ended"}
       /\ CanDeliver(pub_sockets[phase.socket], 1)
       /\ pub_sockets' = Deliver(pub_sockets, phase.socket, whole)
       /\ main_sockets' = [main_sockets EXCEPT ![c].isOnSplitupPhase = NoSplitup]

\* main_socket.on('data') while ports !== null
Splitup_Dispatch(c, data) ==
  LET action == Tok(data.toks, 4, 1)
      id == Tok(data.toks, 4, 2)
      sha1_dig == Tok(data.toks, 4, 3)
      sha512_dig == Tok(data.toks, 4, 4)
      body == subarray(data.body, 0, BufLen(data.body) - BufLen(AUTH_BUFFER))
  IN
  /\ UNCHANGED <<ports, servers, connections>>
  /\ IF main_sockets[c].isOnSplitupPhase.on
     THEN Splitup_Collect(c, data)
     ELSE IF data.toks = <<>> \/ ~isUUID(id)
     THEN /\ console' = {"Invalid id, ignoring"}
          /\ UNCHANGED <<main_sockets, pub_sockets>>
     ELSE IF ~Has(connections, id)
     THEN /\ console' = {"Connection was already closed, ignoring packet"}
          /\ CanWrite(main_sockets[c], 1)
          /\ main_sockets' = Write(main_sockets, c, buildPacket("CLOSE", id, <<>>, 0))
          /\ UNCHANGED pub_sockets
     ELSE IF ~endsWith(Bytes(data), AUTH_BUFFER)
     THEN /\ console' = {"Just received a split packet, waiting for the rest"}
          /\ main_sockets' =
               [main_sockets EXCEPT ![c].isOnSplitupPhase =
                  [on |-> TRUE, buf |-> data.body,
                   sha1 |-> IF sha1_dig = UNDEFINED THEN "" ELSE sha1_dig,
                   sha512 |-> IF sha512_dig = UNDEFINED THEN "" ELSE sha512_dig,
                   socket |-> connections[id]]]
          /\ UNCHANGED pub_sockets
     ELSE IF InvalidChecksum(body, sha1_dig, sha512_dig)
     THEN /\ console' = {"Invalid checksum, ignoring"}
          /\ UNCHANGED <<main_sockets, pub_sockets>>
     ELSE IF ~isPacketType(action) \/ action # "DATA"
     THEN /\ console' = {"Invalid action, ignoring"}
          /\ UNCHANGED <<main_sockets, pub_sockets>>
     ELSE /\ console' = {"->"}
          /\ CanDeliver(pub_sockets[connections[id]], 1)
          /\ pub_sockets' = Deliver(pub_sockets, connections[id], body)
          /\ UNCHANGED main_sockets

\* main_socket.on('data', data => ...)
Splitup_MainData(c, data) ==
  /\ Handler("part_005")
  /\ c \in DOMAIN main_sockets
  /\ main_sockets[c].state \in {"open", "ended"}
  /\ IF ports = NULL THEN Splitup_Authenticate(c, data) ELSE Splitup_Dispatch(c, data)
  /\ UNCHANGED <<shredded_packets, starter_vars, process>>
  /\ Counted

\* main_socket.on('close', error => ...)
Splitup_MainClose(c, error) ==
  /\ Handler("part_005")
  /\ c \in DOMAIN main_sockets
  /\ main_sockets[c].state \in {"open", "ended"}
  /\ main_sockets' = [main_sockets EXCEPT ![c].state = "closed"]
  /\ IF error
     THEN /\ console' = {}
          /\ UNCHANGED <<ports, servers>>
     ELSE /\ console' = {"Client closed connection, restarting it"}
          /\ ports' = NULL
          /\ servers' = [port \in DOMAIN servers |->
                           [servers[port] EXCEPT !.listening = FALSE]]
  /\ UNCHANGED <<connections, shredded_packets, pub_sockets, starter_vars,
                 process>>
  /\ Counted

\* server.on('connection', socket => ...): let id = randomUUID();
\* while (connections.has(id)) id = randomUUID()
Splitup_PublicConnection(port, id) ==
  /\ Handler("part_005")
  /\ Has(servers, port) /\ servers[port].listening
  /\ Len(pub_sockets) < MaxPub
  /\ ~Has(connections, id)
  /\ pub_sockets' = Append(pub_sockets,
       [id |-> id, port |-> port, owner |-> servers[port].owner, state |-> "open",
        reads |-> <<>>, written |-> <<>>])
  /\ connections' = Set(connections, id, Len(pub_sockets) + 1)
  /\ console' = {"Received connection from"}
  /\ UNCHANGED <<ports, servers, shredded_packets, main_sockets,
                 starter_vars, process>>
  /\ Counted

\* socket.on('data', data => main_socket.write(buildPacket(DATA, id, data, port)))
Splitup_PublicData(p, len) ==
  LET sock == pub_sockets[p]
      data == PublicChunk(p, Len(sock.reads) + 1, len)
  IN
  /\ Handler("part_005")
  /\ p \in DOMAIN pub_sockets /\ sock.state \in {"open", "ended"}
  /\ Len(sock.reads) < MaxReads
  /\ console' = {"->"}
  /\ CanWrite(main_sockets[sock.owner], 1)
  /\ pub_sockets' = [pub_sockets EXCEPT ![p].reads = Append(@, data)]
  /\ main_sockets' = Write(main_sockets, sock.owner,
                           buildPacket("DATA", sock.id, data, sock.port))
  /\ UNCHANGED <<ports, servers, connections, shredded_packets,
                 starter_vars, process>>
  /\ Counted

\* socket.on('close', () => ...) of a public socket
Splitup_PublicClose(p) ==
  LET sock == pub_sockets[p] IN
  /\ Handler("part_005")
  /\ p \in DOMAIN pub_sockets /\ sock.state \in {"open", "ended"}
  /\ CanWrite(main_sockets[sock.owner], 1)
  /\ console' = {"Closing connection"}
  /\ pub_sockets' = [pub_sockets EXCEPT ![p].state = "closed"]
  /\ main_sockets' = Write(main_sockets, sock.owner,
                           buildPacket("CLOSE", sock.id, <<>>, 0))
  /\ connections' = Delete(connections, sock.id)
  /\ UNCHANGED <<ports, servers, shredded_packets, starter_vars, process>>
  /\ Counted

----------------------------------------------------------------------------
(* The starter of src/unnamed/part_002: DATA and CLOSE frames only, and a     *)
(* reader is paused when a write returns false.  A run of it is a run of its *)
(* own.  A socket has needDrain set from a write that returned false until   *)
(* its 'drain' event; drain holds what the once('drain') listeners of the    *)
(* control socket resume: 0 for the control socket, b for backend socket b.  *)

\* part_002: enum PacketType
Pause_PacketType == {"DATA", "CLOSE", "AUTH"}

\* what the control peer of part_002 may send
PauseReads ==
  {appendHeader("DATA", id, PeerChunk(id, 1), 8080, 0, 0) : id \in UUIDs}
  \cup {Damaged(appendHeader("DATA", UUID1, PeerChunk(UUID1, 1), 8080, 0, 0), 4)}
  \cup {appendHeader("CLOSE", id, <<>>, 0, 0, 0) : id \in UUIDs}
  \cup {Frame(<<"HELLO">>, <<>>)}

\* sock.write(...) returns false: the socket waits for its 'drain' event
Full(sock, flushed) == [sock EXCEPT !.needDrain = @ \/ ~flushed]

\* function onConnect(s)
Pause_onConnect(flushed) ==
  /\ Handler("part_002")
  /\ socket.state = "connecting" /\ socket.once
  /\ console' = {"Connected to"}
  /\ socket' = Full(SocketWrite([socket EXCEPT !.state = "open", !.once = FALSE],
                                starter_appendHeader("AUTH", config_auth,
                                                     join(config_targets), 0, 0)),
                    flushed)
  /\ UNCHANGED <<ports, servers, connections, shredded_packets, main_sockets,
                 pub_sockets, conn_sockets, timers, process>>
  /\ Counted

\* const conn_socket = connect(port, ...); connections.set(id, conn_socket)
Pause_Connect(id, port) ==
  IF Has(connections, id) THEN conn_sockets
  ELSE Append(conn_sockets, [id |-> id, port |-> port, state |-> "open",
                             reads |-> <<>>, written |-> <<>>,
                             paused |-> FALSE, needDrain |-> FALSE])

\* else { socket.pause(); socket.once('drain', () => socket.resume()) }
Pause_Client(sock, success) ==
  IF success THEN sock
  ELSE [sock EXCEPT !.paused = TRUE, !.drain = @ \cup {0}]

\* socket.on('data', data => ...); success is what the write to the target returns
Pause_SocketData(data, success) ==
  LET action == Tok(data.toks, 5, 1)
      id == Tok(data.toks, 5, 2)
      port_str == Tok(data.toks, 5, 3)
      sha1_dig == Tok(data.toks, 5, 4)
      sha512_dig == Tok(data.toks, 5, 5)
      body == data.body
      connected == Pause_Connect(id, parseInt(port_str))
  IN
  /\ Handler("part_002")
  /\ socket.state = "open" /\ ~socket.paused
  /\ UNCHANGED <<ports, servers, shredded_packets, main_sockets, pub_sockets, timers,
                 process>>
  /\ IF action \notin Pause_PacketType
     THEN /\ console' = {"Invalid action, ignoring"}
          /\ UNCHANGED <<connections, conn_sockets, socket>>
     ELSE IF ~isUUID(id)
     THEN /\ console' = {"Invalid id, ignoring"}
          /\ UNCHANGED <<connections, conn_sockets, socket>>
     ELSE IF action = "CLOSE"
     THEN /\ console' = {"Closing connection"}
          /\ conn_sockets' = EndTarget(conn_sockets, id)
          /\ connections' = Delete(connections, id)
          /\ UNCHANGED socket
     ELSE IF port_str = UNDEFINED
     THEN /\ console' = {"Invalid port, ignoring"}
          /\ UNCHANGED <<connections, conn_sockets, socket>>
     ELSE IF starter_InvalidChecksum(body, sha1_dig, sha512_dig)
     THEN /\ console' = {"Invalid checksum, ignoring"}
          /\ UNCHANGED <<connections, conn_sockets, socket>>
     ELSE /\ Len(connected) <= MaxBackend
          /\ connections' = Set(connections, id, Target(id))
          /\ CanDeliver(connected[Target(id)], 1)
          /\ conn_sockets' =
               [Deliver(connected, Target(id), body) EXCEPT
                  ![Target(id)] = Full(@, success)]
          /\ socket' = Pause_Client(socket, success)
          /\ console' = IF success THEN {}
                        ELSE {"Failed to flush buffer to target, pausing client"}
  /\ Counted

\* conn_socket.on('data', data => ...); flushed is what socket.write returns
Pause_ConnData(b, flushed) ==
  LET sock == conn_sockets[b]
      data == BackendChunk(b, Len(sock.reads) + 1, MAX_PACKET_SIZE)
  IN
  /\ Handler("part_002")
  /\ b \in DOMAIN conn_sockets /\ sock.state \in {"open", "ended"} /\ ~sock.paused
  /\ Len(sock.reads) < MaxReads
  /\ socket.state = "open"
  /\ CanWrite(socket, 1)
  /\ IF flushed
     THEN /\ console' = {}
          /\ socket' = SocketWrite(socket, starter_appendHeader("DATA", sock.id, data, 0, 0))
          /\ conn_sockets' = [conn_sockets EXCEPT ![b].reads = Append(@, data)]
     ELSE /\ console' = {"Client buffer full, pausing target"}
          /\ socket' = [Full(SocketWrite(socket,
                                         starter_appendHeader("DATA", sock.id, data, 0, 0)),
                             FALSE) EXCEPT !.drain = @ \cup {b}]
          /\ conn_sockets' = [conn_sockets EXCEPT ![b].reads = Append(@, data),
                                                  ![b].paused = TRUE]
  /\ UNCHANGED <<ports, servers, connections, shredded_packets, main_sockets,
                 pub_sockets, timers, process>>
  /\ Counted

\* the 'drain' event of the control socket: socket.on('drain') logs, and the
\* once('drain') listeners resume what they paused
Pause_SocketDrain ==
  /\ Handler("part_002")
  /\ socket.state = "open" /\ socket.needDrain
  /\ console' = {"Server drained buffer"}
  /\ socket' = [socket EXCEPT !.needDrain = FALSE, !.drain = {},
                              !.paused = @ /\ 0 \notin socket.drain]
  /\ conn_sockets' = [b \in DOMAIN conn_sockets |->
                        [conn_sockets[b] EXCEPT !.paused = @ /\ b \notin socket.drain]]
  /\ UNCHANGED <<ports, servers, connections, shredded_packets, main_sockets,
                 pub_sockets, timers, process>>
  /\ Counted

\* conn_socket.on('drain', () => c.warn(..., "Target drained buffer"))
Pause_ConnDrain(b) ==
  /\ Handler("part_002")
  /\ b \in DOMAIN conn_sockets
  /\ conn_sockets[b].state = "open" /\ conn_sockets[b].needDrain
  /\ console' = {"Target drained buffer"}
  /\ conn_sockets' = [conn_sockets EXCEPT ![b].needDrain = FALSE]
  /\ UNCHANGED <<ports, servers, connections, shredded_packets, main_sockets,
                 pub_sockets, socket, timers, process>>
  /\ Counted

\* conn_socket.on('close', () => connections.delete(id))
Pause_ConnClose(b) ==
  /\ Handler("part_002")
  /\ b \in DOMAIN conn_sockets /\ conn_sockets[b].state \in {"open", "ended"}
  /\ console' = {"Closing connection"}
  /\ conn_sockets' = [conn_sockets EXCEPT ![b].state = "closed", ![b].needDrain = FALSE]
  /\ connections' = Delete(connections, conn_sockets[b].id)
  /\ UNCHANGED <<ports, servers, shredded_packets, main_sockets, pub_sockets,
                 socket, timers, process>>
  /\ Counted

\* socket.on('close', error => ...) after the redirector closed the connection
Pause_SocketClose ==
  /\ Handler("part_002")
  /\ socket.state = "open"
  /\ socket' = [socket EXCEPT !.state = "closed", !.needDrain = FALSE]
  /\ console' = {"Server closed connection, finishing it up"}
  /\ UNCHANGED <<ports, servers, connections, shredded_packets, main_sockets,
                 pub_sockets, conn_sockets, timers, process>>
  /\ Counted

----------------------------------------------------------------------------
(* The specification *)

\* what randomUUID() may return: any id; ids differ only by name, so a new name
\* is taken in order
RandomUUIDs ==
  LET used == {pub_sockets[p].id : p \in DOMAIN pub_sockets} IN
  IF UUID1 \in used THEN UUIDs ELSE {UUID1}

Init ==
  /\ program \in {"redirector", "starter"}
  /\ process = "running"
  /\ ports = NULL
  /\ servers = EmptyMap
  /\ connections = EmptyMap
  /\ shredded_packets = EmptyMap
  /\ main_sockets = <<>>
  /\ pub_sockets = <<>>
  /\ socket = [state |-> "connecting", once |-> TRUE, out |-> <<>>]
  /\ conn_sockets = <<>>
  /\ timers = 0
  /\ console = {}
  /\ events = 0

Next ==
  \/ Connection
  \/ \E c \in 1..MaxMain, data \in ControlReads : MainData(c, data)
  \/ \E c \in 1..MaxMain, error \in BOOLEAN : MainClose(c, error)
  \/ \E port \in {8080, 8081}, id \in RandomUUIDs : PublicConnection(port, id)
  \/ \E p \in 1..MaxPub, len \in ChunkLengths : PublicData(p, len)
  \/ \E p \in 1..MaxPub : PublicClose(p)
  \/ \E p \in 1..MaxPub : PublicError(p)
  \/ onConnect
  \/ SocketConnect
  \/ SocketError
  \/ Reconnect
  \/ \E data \in ControlReads : SocketData(data)
  \/ \E error \in BOOLEAN : SocketClose(error)
  \/ \E b \in 1..MaxBackend, len \in ChunkLengths : ConnData(b, len)
  \/ \E b \in 1..MaxBackend : ConnClose(b)
  \/ \E b \in 1..MaxBackend : ConnError(b)

Spec == Init /\ [][Next]_vars

\* the run of the redirector of src/unnamed/part_005
SplitupInit ==
  /\ program = "part_005"
  /\ process = "running"
  /\ ports = NULL
  /\ servers = EmptyMap
  /\ connections = EmptyMap
  /\ shredded_packets = EmptyMap
  /\ main_sockets = <<>>
  /\ pub_sockets = <<>>
  /\ socket = [state |-> "connecting", once |-> TRUE, out |-> <<>>]
  /\ conn_sockets = <<>>
  /\ timers = 0
  /\ console = {}
  /\ events = 0

SplitupNext ==
  \/ Splitup_Connection
  \/ \E c \in 1..MaxMain, data \in SplitupReads : Splitup_MainData(c, data)
  \/ \E c \in 1..MaxMain, error \in BOOLEAN : Splitup_MainClose(c, error)
  \/ \E port \in {8080, 8081}, id \in RandomUUIDs : Splitup_PublicConnection(port, id)
  \/ \E p \in 1..MaxPub, len \in ChunkLengths : Splitup_PublicData(p, len)
  \/ \E p \in 1..MaxPub : Splitup_PublicClose(p)

SplitupSpec == SplitupInit /\ [][SplitupNext]_vars

\* the run of the starter of src/unnamed/part_002
PauseInit ==
  /\ program = "part_002"
  /\ process = "running"
  /\ ports = NULL
  /\ servers = EmptyMap
  /\ connections = EmptyMap
  /\ shredded_packets = EmptyMap
  /\ main_sockets = <<>>
  /\ pub_sockets = <<>>
  /\ socket = [state |-> "connecting", once |-> TRUE, out |-> <<>>,
               paused |-> FALSE, needDrain |-> FALSE, drain |-> {}]
  /\ conn_sockets = <<>>
  /\ timers = 0
  /\ console = {}
  /\ events = 0

PauseNext ==
  \/ \E flushed \in BOOLEAN : Pause_onConnect(flushed)
  \/ \E data \in PauseReads, success \in BOOLEAN : Pause_SocketData(data, success)
  \/ \E b \in 1..MaxBackend, flushed \in BOOLEAN : Pause_ConnData(b, flushed)
  \/ Pause_SocketDrain
  \/ \E b \in 1..MaxBackend : Pause_ConnDrain(b)
  \/ \E b \in 1..MaxBackend : Pause_ConnClose(b)
  \/ Pause_SocketClose

PauseSpec == PauseInit /\ [][PauseNext]_vars

----------------------------------------------------------------------------
(* Sessions: isolation, order, integrity *)

\* the sessions whose bytes are in a buffer: a chunk of the peer is named by the
\* id of its session
Origins(bytes) == {bytes[i].src : i \in DOMAIN bytes}

\* C1: every byte written to the public socket of a session (redirector) or to its
\* backend socket (starter) was read by the peer from the socket of that same
\* session; no byte of another session, and no byte of another origin, is written
\* to a socket of the session.
C1_SessionIsolation ==
  /\ \A p \in DOMAIN pub_sockets : \A w \in DOMAIN pub_sockets[p].written :
       Origins(pub_sockets[p].written[w]) \subseteq {pub_sockets[p].id}
  /\ \A b \in DOMAIN conn_sockets : \A w \in DOMAIN conn_sockets[b].written :
       Origins(conn_sockets[b].written[w]) \subseteq {conn_sockets[b].id}

\* the payloads of the DATA and SHRED frames of session id on a control socket,
\* in the order they were written
RECURSIVE Payloads(_, _)
Payloads(out, id) ==
  IF out = <<>> THEN <<>>
  ELSE IF out[1].toks[1] \in {"DATA", "SHRED"} /\ out[1].toks[2] = id
       THEN out[1].body \o Payloads(Tail(out), id)
       ELSE Payloads(Tail(out), id)

\* whether no other socket of the list had the id of socket i
OnlyOne(socks, i) == \A j \in DOMAIN socks : socks[j].id = socks[i].id => j = i

\* C2: the bytes of a session that were sent on towards its destination are at
\* every moment a prefix of the bytes read from its origin socket, same order,
\* nothing skipped or duplicated, for chunks of any size: also for a chunk larger
\* than MAX_PACKET_SIZE followed by a smaller one.
C2_OrderedPrefix ==
  /\ \A p \in DOMAIN pub_sockets :
       OnlyOne(pub_sockets, p) =>
         IsPrefix(Payloads(main_sockets[pub_sockets[p].owner].out, pub_sockets[p].id),
                  concat(pub_sockets[p].reads))
  /\ \A b \in DOMAIN conn_sockets :
       OnlyOne(conn_sockets, b) =>
         IsPrefix(Payloads(socket.out, conn_sockets[b].id), concat(conn_sockets[b].reads))

\* whether a read is a DATA or SHRED frame whose digests are not those of its body
Mismatch(prog, data) ==
  /\ data.toks # <<>> /\ data.toks[1] \in {"DATA", "SHRED"}
  /\ \/ digest("sha1", data.body) # Tok(data.toks, 7, Sha1At(prog))
     \/ digest("sha512", data.body) # Tok(data.toks, 7, Sha1At(prog) + 1)

RedirectorMismatches == {d \in RedirectorReads : Mismatch("redirector", d)}

StarterMismatches == {d \in StarterReads : Mismatch("starter", d)}

\* C3: on both peers, the read of a DATA or SHRED frame whose SHA-1 or SHA-512
\* digest is not that of its body writes to no downstream socket and stores no
\* fragment: a step that changes a public socket, a backend socket, the session
\* table of the starter or a fragment buffer is never the handling of such a frame.
C3_MismatchNeverDelivered ==
  [][(\/ pub_sockets' # pub_sockets
      \/ conn_sockets' # conn_sockets
      \/ connections' # connections
      \/ shredded_packets' # shredded_packets)
     => /\ \A data \in RedirectorMismatches, c \in 1..MaxMain : ~MainData(c, data)
        /\ \A data \in StarterMismatches : ~SocketData(data)]_vars

\* a frame was dropped for its digests on a peer that has delivered bytes
C3_Witness ==
  /\ console = {"Invalid checksum, ignoring"}
  /\ \/ \E p \in DOMAIN pub_sockets : pub_sockets[p].written # <<>>
     \/ \E b \in DOMAIN conn_sockets : conn_sockets[b].written # <<>>

----------------------------------------------------------------------------
(* The control session of the redirector *)

\* whether control socket c is the one whose frame set the port registry
Established(c) ==
  /\ ports # NULL
  /\ \E port \in DOMAIN servers : servers[port].owner = c

\* C4: a control connection whose first frame carried a secret other than
\* config.auth has been ended by the redirector, and no public listener is ever
\* opened for it, then or later.
C4_WrongSecretRejected ==
  \A c \in DOMAIN main_sockets :
    main_sockets[c].first = "wrong secret" =>
      /\ main_sockets[c].state # "open"
      /\ \A port \in DOMAIN servers : servers[port].owner # c

\* the first frames with packet type AUTH, the secret and a port list
AuthFrames ==
  {d \in AuthReads : /\ Len(d.toks) >= 3 /\ d.toks[1] = "AUTH"
                     /\ d.toks[2] = config_auth /\ d.toks[3] # ""}

\* C5: the first frame of a control connection, of packet type AUTH with the
\* secret and a non-empty port list, is accepted: the port registry then holds the
\* advertised ports, a listener is open on each of them and the control socket
\* stays open.
C5_AuthAccepted ==
  [][\A c \in DOMAIN main_sockets, data \in AuthFrames :
       (/\ ports = NULL
        /\ main_sockets[c].first = "none"
        /\ MainData(c, data))
       => LET list == SplitPorts(data.toks[3]) IN
          /\ ports' = Some([i \in DOMAIN list |-> parseInt(list[i])])
          /\ \A i \in DOMAIN list :
               /\ Has(servers', parseInt(list[i]))
               /\ servers'[parseInt(list[i])].listening
          /\ main_sockets'[c].state = "open"]_vars

\* C6: while a control session is established on an open control socket, a read on
\* another connection to the control port is not dispatched: it writes to no
\* public socket and is answered with no frame.
C6_OneControlSession ==
  [][\A c \in DOMAIN main_sockets :
       (/\ \E o \in DOMAIN main_sockets :
             o # c /\ Established(o) /\ main_sockets[o].state = "open"
        /\ \/ pub_sockets' # pub_sockets
           \/ main_sockets'[c].out # main_sockets[c].out)
       => \A data \in RedirectorReads : ~MainData(c, data)]_vars

\* C7: no public listener is open whose control socket has closed, cleanly or
\* with an error.
C7_ListenersClosed ==
  \A port \in DOMAIN servers :
    servers[port].listening => main_sockets[servers[port].owner].state # "closed"

\* C8: by the time a control session is authenticated, every public socket of a
\* control session that closed is closed and out of the session table.
C8_SessionsClosed ==
  [][(ports = NULL /\ ports' # NULL)
     => \A p \in DOMAIN pub_sockets :
          main_sockets[pub_sockets[p].owner].state = "closed" =>
            /\ pub_sockets[p].state # "open"
            /\ ~Has(connections, pub_sockets[p].id)]_vars

\* C9: the port registry is set by the first frame of a control connection only,
\* and it is unset when the control socket of the session closes, cleanly or with
\* an error.
C9_PortsOncePerSession ==
  [][/\ (ports' # ports /\ ports' # NULL)
          => \E c \in DOMAIN main_sockets :
               main_sockets[c].first = "none" /\ main_sockets'[c].first # "none"
     /\ \A c \in DOMAIN main_sockets :
          (/\ Established(c)
           /\ main_sockets[c].state # "closed"
           /\ main_sockets'[c].state = "closed")
          => ports' = NULL]_vars

\* C10: on a newly established control session, a DATA frame with the id of a
\* public socket of a control session that closed is written to no public socket
\* and is answered with CLOSE(id).
C10_StaleIdRejected ==
  [][\A c \in DOMAIN main_sockets, p \in DOMAIN pub_sockets :
       (/\ Established(c)
        /\ main_sockets[pub_sockets[p].owner].state = "closed"
        /\ \A q \in DOMAIN pub_sockets :
             pub_sockets[q].id = pub_sockets[p].id => pub_sockets[q].owner # c
        /\ MainData(c, PeerFrame("redirector", "DATA", pub_sockets[p].id,
                                 PeerChunk(pub_sockets[p].id, 1), 0, 0)))
       => /\ pub_sockets' = pub_sockets
          /\ main_sockets'[c].out =
               Append(main_sockets[c].out,
                      appendHeader("CLOSE", pub_sockets[p].id, <<>>, 0, 0, 0))]_vars

----------------------------------------------------------------------------
(* Session ids and CLOSE frames *)

\* C11: the ids the redirector assigns to the public sockets of one control
\* session are pairwise distinct, also when the earlier socket has closed.
C11_IdsDistinct ==
  \A p \in DOMAIN pub_sockets, q \in DOMAIN pub_sockets :
    (p # q /\ pub_sockets[p].owner = pub_sockets[q].owner)
      => pub_sockets[p].id # pub_sockets[q].id

\* the reads of the redirector whose second token is a well-formed id
WellFormedFrames == {d \in RedirectorReads : Len(d.toks) >= 2 /\ isUUID(d.toks[2])}

\* C12: when the established redirector reads a frame whose well-formed id is not
\* in the session table, it writes one CLOSE(id) frame on the control socket the
\* frame came from (nothing is sent on a socket the redirector has ended) and
\* nothing to any public socket.
C12_UnknownIdClosed ==
  [][\A c \in DOMAIN main_sockets :
       Established(c) =>
         \A data \in WellFormedFrames :
           (~Has(connections, data.toks[2]) /\ MainData(c, data))
           => /\ main_sockets'[c].out =
                   IF main_sockets[c].state = "open"
                   THEN Append(main_sockets[c].out,
                               appendHeader("CLOSE", data.toks[2], <<>>, 0, 0, 0))
                   ELSE main_sockets[c].out
              /\ \A o \in DOMAIN main_sockets : o # c => main_sockets'[o] = main_sockets[o]
              /\ pub_sockets' = pub_sockets]_vars

\* a frame for an unknown id has just been answered with CLOSE on the control
\* socket of the session
C12_Witness ==
  /\ console = {"Connection was already closed, ignoring packet"}
  /\ \E c \in DOMAIN main_sockets :
       /\ Established(c) /\ main_sockets[c].state = "open"
       /\ main_sockets[c].out # <<>>
       /\ main_sockets[c].out[Len(main_sockets[c].out)].toks[1] = "CLOSE"

\* C13: when the established redirector reads a CLOSE frame for an id of the
\* session table, it closes the public socket of that id and removes the id from
\* the table.
C13_CloseFrameCloses ==
  [][\A c \in DOMAIN main_sockets, id \in DOMAIN connections :
       (/\ Established(c)
        /\ MainData(c, PeerFrame("redirector", "CLOSE", id, <<>>, 0, 0)))
       => /\ pub_sockets'[connections[id]].state # "open"
          /\ ~Has(connections', id)]_vars

\* the frames written on a control socket in a step
Written(c) == SubSeq(main_sockets'[c].out, Len(main_sockets[c].out) + 1,
                     Len(main_sockets'[c].out))

\* whether a frame carries bytes read from public socket p
CarriesFrom(f, p) ==
  /\ f.toks[1] \in {"DATA", "SHRED"}
  /\ \E i \in DOMAIN f.body : f.body[i].src = "public " \o ToString(p)

\* C14: when a public socket of a session of the table closes, the redirector
\* writes one CLOSE frame for its id on the control socket of the session (nothing
\* is sent on a control socket that is no longer open) and removes the id from
\* the table; once the socket has closed, no DATA or SHRED frame of that session
\* is written.
C14_PublicCloseAnnounced ==
  [][\A p \in DOMAIN pub_sockets :
       /\ PublicClose(p)
            => /\ Written(pub_sockets[p].owner) =
                    IF main_sockets[pub_sockets[p].owner].state = "open"
                    THEN <<appendHeader("CLOSE", pub_sockets[p].id, <<>>, 0, 0, 0)>>
                    ELSE <<>>
               /\ ~Has(connections', pub_sockets[p].id)
       /\ pub_sockets[p].state = "closed"
            => \A c \in DOMAIN main_sockets :
                 \A i \in DOMAIN Written(c) : ~CarriesFrom(Written(c)[i], p)]_vars

\* a public socket that had sent a chunk on has closed, and its CLOSE frame is the
\* last frame on the control socket
C14_Witness ==
  \E p \in DOMAIN pub_sockets :
    LET out == main_sockets[pub_sockets[p].owner].out IN
    /\ pub_sockets[p].state = "closed"
    /\ pub_sockets[p].reads # <<>>
    /\ ~Has(connections, pub_sockets[p].id)
    /\ Len(out) >= 2
    /\ out[Len(out) - 1].toks[1] = "DATA"
    /\ out[Len(out)] = appendHeader("CLOSE", pub_sockets[p].id, <<>>, 0, 0, 0)

\* C15: when the starter reads a CLOSE frame for an id of its session table, it
\* ends the backend socket registered under the id and removes the id from the
\* table; a CLOSE frame for any other id changes nothing and is not answered.
C15_StarterCloseFrame ==
  [][\A id \in UUIDs :
       SocketData(PeerFrame("starter", "CLOSE", id, <<>>, 0, 0))
       => IF Has(connections, id)
          THEN /\ conn_sockets'[connections[id]].state = "ended"
               /\ \A b \in DOMAIN conn_sockets :
                    b # connections[id] => conn_sockets'[b] = conn_sockets[b]
               /\ connections' = Delete(connections, id)
               /\ socket' = socket
          ELSE UNCHANGED <<connections, conn_sockets, shredded_packets, socket>>]_vars

\* a backend socket that got bytes has been ended by a CLOSE frame, and its id
\* is out of the table
C15_Witness ==
  /\ program = "starter"
  /\ console = {"Closing connection"}
  /\ \E b \in DOMAIN conn_sockets :
       /\ conn_sockets[b].state = "ended"
       /\ conn_sockets[b].written # <<>>
       /\ ~Has(connections, conn_sockets[b].id)

\* C16: when a backend socket closes on the starter, the starter writes a CLOSE
\* frame for the socket's id to the control connection and removes the id from
\* the table.
C16_BackendCloseAnnounced ==
  [][\A b \in DOMAIN conn_sockets :
       (ConnClose(b) /\ socket.state = "open")
       => /\ socket'.out = Append(socket.out,
                                  starter_appendHeader("CLOSE", conn_sockets[b].id, <<>>, 0, 0))
          /\ ~Has(connections', conn_sockets[b].id)]_vars

\* the valid DATA frames the starter may read
StarterDataFrames ==
  {PeerFrame("starter", "DATA", id, PeerChunk(id, 1), 0, 0) : id \in UUIDs}

\* C17: on the starter a valid DATA frame for an id the table lacks opens exactly
\* one backend connection to the port of the frame, registers it under the id
\* and writes the body to it; a valid DATA frame for an id of the table opens no
\* connection and writes the body to the registered socket; every id of the
\* table maps to one open backend socket of its own.
C17_OneBackendPerId ==
  /\ [](program = "starter" => \A id \in DOMAIN connections :
          /\ connections[id] \in DOMAIN conn_sockets
          /\ conn_sockets[connections[id]].id = id
          /\ conn_sockets[connections[id]].state = "open")
  /\ [][\A data \in StarterDataFrames :
          SocketData(data)
          => LET id == data.toks[2]
                 new == Len(conn_sockets) + 1
             IN
             IF ~Has(connections, id)
             THEN /\ Len(conn_sockets') = new
                  /\ conn_sockets'[new] =
                       [id |-> id, port |-> parseInt(data.toks[3]), state |-> "open",
                        reads |-> <<>>, written |-> <<data.body>>]
                  /\ \A b \in DOMAIN conn_sockets : conn_sockets'[b] = conn_sockets[b]
                  /\ connections' = Set(connections, id, new)
             ELSE /\ Len(conn_sockets') = Len(conn_sockets)
                  /\ conn_sockets'[connections[id]].written =
                       Append(conn_sockets[connections[id]].written, data.body)
                  /\ \A b \in DOMAIN conn_sockets :
                       b # connections[id] => conn_sockets'[b] = conn_sockets[b]
                  /\ connections' = connections]_vars

\* the registered backend socket of an id got the bodies of two DATA frames, and
\* no other backend socket was opened
C17_Witness ==
  /\ program = "starter"
  /\ console = {"Checksums match", "Received data from connection"}
  /\ \E id \in DOMAIN connections :
       /\ Len(conn_sockets[connections[id]].written) = 2
       /\ Len(conn_sockets) = 1

\* the receiver's handling of the frames of one id, from an empty fragment
\* buffer: the buffers it writes to the socket of the id, in order
\*   if (typeof packet_no === "undefined" || packet_no === "") socket.write(body)
\*   else if (shredded_packets.has(id)) { s_packet.set(parseInt(packet_no), body);
\*     if (s_packet.size === parseInt(total)) socket.write(Buffer.concat(packets)) }
\*   else shredded_packets.set(id, new Map([[parseInt(packet_no), body]]))
RECURSIVE Reassemble(_, _, _, _, _)
Reassemble(frames, has, s_packet, limit, at) ==
  IF frames = <<>> THEN <<>>
  ELSE LET f == Head(frames)
           packet_no == Tok(f.toks, limit, at)
           total == Tok(f.toks, limit, at + 1)
           s == Set(s_packet, parseInt(packet_no), f.body)
       IN
       IF packet_no = UNDEFINED \/ packet_no = ""
       THEN <<f.body>> \o Reassemble(Tail(frames), has, s_packet, limit, at)
       ELSE IF ~has
       THEN Reassemble(Tail(frames), TRUE,
                       Set(EmptyMap, parseInt(packet_no), f.body), limit, at)
       ELSE IF Cardinality(DOMAIN s) # parseInt(total)
       THEN Reassemble(Tail(frames), TRUE, s, limit, at)
       ELSE IF \E i \in 0..(parseInt(total) - 1) : ~Has(s, i)
       THEN <<>>   \* Buffer.concat throws, the process ends
       ELSE <<concat([i \in 1..parseInt(total) |-> s[i - 1]])>>
            \o Reassemble(Tail(frames), TRUE, s, limit, at)

\* redirector: header.split(' ', 5), packet_no is the fifth token
redirector_Reassemble(frames) == Reassemble(frames, FALSE, EmptyMap, 5, 5)

\* starter: header.split(' ', 7), packet_no is the sixth token
starter_Reassemble(frames) == Reassemble(frames, FALSE, EmptyMap, 7, 6)

\* the arrival orders of a sequence of frames
Orders(frames) ==
  {[i \in DOMAIN frames |-> frames[f[i]]] :
     f \in {g \in [DOMAIN frames -> DOMAIN frames] :
              \A i, j \in DOMAIN frames : i # j => g[i] # g[j]}}

\* what the starter wrote to its control socket in this step
SocketWritten == SubSeq(socket'.out, Len(socket.out) + 1, Len(socket'.out))

\* C18: a chunk longer than MAX_PACKET_SIZE that the sender splits into SHRED
\* frames is, once the peer has received the frames the sender wrote to the
\* control connection, in any order, written by the peer exactly once, as the
\* bytes of the chunk; from the redirector to the starter and back.
C18_FragmentRoundTrip ==
  [][/\ \A p \in DOMAIN pub_sockets :
          (PublicData(p, 500) /\ main_sockets[pub_sockets[p].owner].state = "open")
          => \A frames \in Orders(Written(pub_sockets[p].owner)) :
               starter_Reassemble(frames)
                 = <<Norm(PublicChunk(p, Len(pub_sockets[p].reads) + 1, 500))>>
     /\ \A b \in DOMAIN conn_sockets :
          (ConnData(b, 500) /\ socket.state = "open")
          => \A frames \in Orders(SocketWritten) :
               redirector_Reassemble(frames)
                 = <<Norm(BackendChunk(b, Len(conn_sockets[b].reads) + 1, 500))>>]_vars

\* fragment k of a chunk: bytes (k-1)*MAX_PACKET_SIZE up to min(k*MAX_PACKET_SIZE, len)
Fragment(data, k) ==
  subarray(data, (k - 1) * MAX_PACKET_SIZE, Min(k * MAX_PACKET_SIZE, BufLen(data)))

\* what a public socket got written in this step
PublicWritten(p) ==
  SubSeq(pub_sockets'[p].written, Len(pub_sockets[p].written) + 1,
         Len(pub_sockets'[p].written))

\* C19: for a chunk of more than MAX_PACKET_SIZE bytes the sender emits exactly
\* ceil(len / MAX_PACKET_SIZE) SHRED frames with the id of the session and the
\* same total, numbered 1, 2, ..., total in the order of emission, fragment k
\* carrying bytes (k-1)*MAX_PACKET_SIZE up to min(k*MAX_PACKET_SIZE, len).
C19_ShredFrames ==
  [][/\ \A p \in DOMAIN pub_sockets :
          (PublicData(p, 500) /\ main_sockets[pub_sockets[p].owner].state = "open")
          => LET data == PublicChunk(p, Len(pub_sockets[p].reads) + 1, 500)
                 total == Ceil(BufLen(data))
                 shreds == [k \in 1..total |->
                              appendHeader("SHRED", pub_sockets[p].id, Fragment(data, k),
                                           pub_sockets[p].port, k, total)]
             IN \/ Written(pub_sockets[p].owner) = shreds
                \/ PublicWritten(p) = [k \in 1..total |-> Wire(shreds[k])]
     /\ \A b \in DOMAIN conn_sockets :
          (ConnData(b, 500) /\ socket.state = "open")
          => LET data == BackendChunk(b, Len(conn_sockets[b].reads) + 1, 500)
                 total == Ceil(BufLen(data))
             IN SocketWritten =
                  [k \in 1..total |->
                     starter_appendHeader("SHRED", conn_sockets[b].id, Fragment(data, k),
                                          k, total)]]_vars

\* C20: whenever the control connection of the starter has ended, by an error
\* or by a clean close of the redirector, a new connection attempt follows: the
\* only code that connects again is the callback of setTimeout, so one is
\* pending for as long as the socket stays closed.
C20_ReconnectScheduled ==
  (program = "starter" /\ socket.state = "closed") => timers > 0

\* C21: every time the control connection of the starter becomes connected, the
\* first connection and every reconnection alike, the starter writes an AUTH
\* frame on it before any other frame: the step that connects the socket writes
\* the AUTH frame.
C21_AuthOnEveryConnect ==
  [][(program = "starter" /\ socket.state = "connecting" /\ socket'.state = "open")
       => SocketWritten =
            <<starter_appendHeader("AUTH", config_auth, join(config_targets), 0, 0)>>]_vars

\* the sockets after the bodies of the frames went, in order, to the sockets
\* the table registers under their ids
RECURSIVE Dispatched(_, _)
Dispatched(socks, frames) ==
  IF frames = <<>> THEN socks
  ELSE Dispatched(Deliver(socks, connections[Head(frames).toks[2]], Head(frames).body),
                  Tail(frames))

\* the DATA frame of the peer of prog for the first chunk of session id
DataFrame(prog, id) == PeerFrame(prog, "DATA", id, PeerChunk(id, 1), 0, 0)

\* C22: what a receiver dispatches does not depend on how the control byte
\* stream is cut into reads: two complete DATA frames of live sessions that
\* arrive in one read are dispatched as when each arrives in a read of its own,
\* the body of the first to its socket and then the body of the second to its
\* socket.
C22_ReadBoundaries ==
  [][\A other \in UUIDs :
       (Has(connections, UUID1) /\ Has(connections, other))
       => /\ \A c \in DOMAIN main_sockets :
               ( /\ Established(c)
                 /\ MainData(c, Coalesced(DataFrame("redirector", UUID1),
                                          DataFrame("redirector", other))) )
               => pub_sockets' = Dispatched(pub_sockets,
                                            <<DataFrame("redirector", UUID1),
                                              DataFrame("redirector", other)>>)
          /\ SocketData(Coalesced(DataFrame("starter", UUID1), DataFrame("starter", other)))
               => conn_sockets' = Dispatched(conn_sockets,
                                             <<DataFrame("starter", UUID1),
                                               DataFrame("starter", other)>>)]_vars

\* the DATA frame of session id with its SHA-1 digest damaged on the way
DamagedFrame(prog, id) == Damaged(DataFrame(prog, id), Sha1At(prog))

\* C23: the drop of a DATA frame for a digest mismatch leaves the session table,
\* the fragment buffers and the sockets of the receiver as they were, and the
\* next DATA frame with correct digests for the same id is delivered to the
\* socket of that session.
C23_DropLeavesSession ==
  [][\A id \in UUIDs :
       /\ \A c \in DOMAIN main_sockets :
            (Established(c) /\ Has(connections, id))
            => /\ <<ports, servers, connections, shredded_packets,
                     main_sockets, pub_sockets>>'
                    # <<ports, servers, connections, shredded_packets,
                        main_sockets, pub_sockets>>
                  => ~MainData(c, DamagedFrame("redirector", id))
               /\ ( /\ console = {"Invalid checksum, ignoring"}
                    /\ pub_sockets[connections[id]].state = "open"
                    /\ MainData(c, DataFrame("redirector", id)) )
                  => /\ pub_sockets'[connections[id]].written =
                          Append(pub_sockets[connections[id]].written,
                                 DataFrame("redirector", id).body)
                     /\ connections' = connections
       /\ ( /\ program = "starter"
            /\ <<connections, shredded_packets, socket, conn_sockets>>'
                 # <<connections, shredded_packets, socket, conn_sockets>> )
            => ~SocketData(DamagedFrame("starter", id))
       /\ ( /\ program = "starter"
            /\ console = {"Invalid checksum, ignoring"}
            /\ SocketData(DataFrame("starter", id)) )
            => /\ Has(connections', id)
               /\ conn_sockets'[connections'[id]].written =
                    Append(IF Has(connections, id)
                           THEN conn_sockets[connections[id]].written ELSE <<>>,
                           DataFrame("starter", id).body)]_vars

\* a frame was dropped for its digests while a session that has received bytes
\* is live, on a public socket or on a backend socket
C23_Witness ==
  /\ console = {"Invalid checksum, ignoring"}
  /\ \E id \in DOMAIN connections :
       IF program = "redirector"
       THEN pub_sockets[connections[id]].state = "open"
            /\ pub_sockets[connections[id]].written # <<>>
       ELSE conn_sockets[connections[id]].written # <<>>

\* C24: an error confined to one session, a digest mismatch on one of its
\* frames or on a payload received in several reads, never keeps a later valid
\* frame of another live session from its socket and never closes the control
\* connection: right after the mismatch, a whole valid frame of another live
\* session is delivered to the public socket of that session, and the control
\* socket stays as it was.
C24_ErrorConfined ==
  [][\A c \in DOMAIN main_sockets, id \in DOMAIN connections :
       ( /\ program = "part_005"
         /\ ports # NULL
         /\ console \in {{"Invalid checksum, ignoring"},
                         {"Received dead limit, splitup phase ended",
                          "Invalid hash, closing connection"}}
         /\ main_sockets[c].isOnSplitupPhase.socket # connections[id]
         /\ pub_sockets[connections[id]].state = "open"
         /\ Splitup_MainData(c, starter_buildPacket(id, PeerChunk(id, 1))) )
       => /\ pub_sockets'[connections[id]].written =
               Append(pub_sockets[connections[id]].written, PeerChunk(id, 1))
          /\ main_sockets'[c].state = main_sockets[c].state]_vars

\* C25: on the starter, when the write of a frame body to a backend socket
\* returns false the reading of the control connection is paused, and it is
\* resumed when that backend socket emits 'drain': once no backend socket waits
\* for its drain any more, the control connection is read again.
C25_BackpressureResumes ==
  [][/\ \A data \in PauseReads :
          (Pause_SocketData(data, FALSE) /\ conn_sockets' # conn_sockets
             /\ data.toks[1] = "DATA")
          => socket'.paused
     /\ \A b \in DOMAIN conn_sockets :
          ( /\ Pause_ConnDrain(b)
            /\ \A o \in DOMAIN conn_sockets : o # b => ~conn_sockets[o].needDrain )
          => ~socket'.paused]_vars

\* C26: in every reachable state of the redirector an id is in the session
\* table exactly when its public socket is open, and the port token of the
\* frames sent for a session is the port of the listener that accepted its
\* socket.
C26_TableIffOpen ==
  /\ [](program = "redirector"
          => /\ \A p \in DOMAIN pub_sockets :
                  pub_sockets[p].state = "open"
                    <=> ( /\ Has(connections, pub_sockets[p].id)
                          /\ connections[pub_sockets[p].id] = p )
             /\ \A id \in DOMAIN connections :
                  /\ connections[id] \in DOMAIN pub_sockets
                  /\ pub_sockets[connections[id]].id = id)
  /\ [][/\ \A port \in DOMAIN servers, id \in UUIDs :
             (Len(pub_sockets') > Len(pub_sockets) /\ PublicConnection(port, id))
               => pub_sockets'[connections'[id]].port = port
        /\ \A p \in DOMAIN pub_sockets, len \in 1..MAX_PACKET_SIZE :
             (main_sockets' # main_sockets /\ pub_sockets' # pub_sockets
                /\ PublicData(p, len))
               => LET sent == main_sockets'[pub_sockets[p].owner].out
                      f == sent[Len(sent)]
                  IN /\ f.toks[2] = pub_sockets[p].id
                     /\ parseInt(f.toks[3]) = pub_sockets[p].port
                     /\ Has(connections, f.toks[2])
                     /\ pub_sockets[connections[f.toks[2]]].port = pub_sockets[p].port]_vars

\* a session was closed while another one is live and has sent a DATA frame
C26_Witness ==
  /\ program = "redirector"
  /\ \E p, q \in DOMAIN pub_sockets :
       /\ pub_sockets[p].state = "closed" /\ pub_sockets[q].state = "open"
       /\ pub_sockets[q].reads # <<>>
       /\ \E c \in DOMAIN main_sockets : \E i \in DOMAIN main_sockets[c].out :
            /\ main_sockets[c].out[i].toks[1] = "DATA"
            /\ main_sockets[c].out[i].toks[2] = pub_sockets[q].id

\* the first frames with a packet type other than AUTH, the secret and a port list
NonAuthFrames ==
  {d \in AuthReads : /\ Len(d.toks) >= 3 /\ isPacketType(d.toks[1]) /\ d.toks[1] # "AUTH"
                     /\ d.toks[2] = config_auth /\ d.toks[3] # ""}

\* C27: while no control session is authenticated, a first frame whose packet
\* type is not AUTH, followed by the secret and a port list, is rejected: the
\* control socket is ended, the port registry stays unset and no public listener
\* is opened.
C27_NonAuthRejected ==
  [][\A c \in DOMAIN main_sockets, data \in NonAuthFrames :
       (/\ ports = NULL
        /\ main_sockets[c].first = "none"
        /\ MainData(c, data))
       => /\ main_sockets'[c].state = "ended"
          /\ ports' = NULL
          /\ servers' = servers]_vars

\* the first frames with a packet type, the secret and a port list of which a
\* token is not a decimal number
BadPortFrames ==
  {d \in BadPortReads : isPacketType(d.toks[1]) /\ d.toks[2] = config_auth}

C29_NoSessionAfterFailure ==
  [][\A c \in DOMAIN main_sockets :
       (/\ program = "redirector"
        /\ main_sockets[c].state = "ended"
        /\ \E data \in RedirectorReads : MainData(c, data))
       => /\ ports' = ports
          /\ servers' = servers]_vars

\* whether bytes written on a socket hold bytes read from a public socket
FromPublic(bytes) ==
  \E j \in DOMAIN bytes, q \in 1..MaxPub : bytes[j].src = "public " \o ToString(q)

\* C30: a chunk the redirector reads from a public socket, of any size, goes
\* to the control connection only: no frame and no byte made from it is ever
\* written to a public socket.
C30_PublicToControlOnly ==
  \A p \in DOMAIN pub_sockets : \A i \in DOMAIN pub_sockets[p].written :
    ~FromPublic(pub_sockets[p].written[i])

\* the SHRED frames a receiver may read
ShredFrames(reads) == {d \in reads : Len(d.toks) >= 2 /\ d.toks[1] = "SHRED"}

\* C31: once a receiver has reassembled and delivered a fragmented payload of
\* an id, the fragment buffer of that id is empty, so that a second fragmented
\* payload of the id is assembled from its own fragments only.
C31_BufferCleared ==
  [][("Got all shredded packets, reassembling" \in console' /\ "TypeError" \notin console')
       => /\ \A c \in DOMAIN main_sockets, data \in ShredFrames(RedirectorReads) :
               (pub_sockets' # pub_sockets /\ MainData(c, data))
               => \/ ~Has(shredded_packets', data.toks[2])
                  \/ shredded_packets'[data.toks[2]] = EmptyMap
          /\ \A data \in ShredFrames(StarterReads) :
               (conn_sockets' # conn_sockets /\ SocketData(data))
               => \/ ~Has(shredded_packets', data.toks[2])
                  \/ shredded_packets'[data.toks[2]] = EmptyMap]_vars

\* C32: in every reachable state a fragment buffer exists only for the id of
\* a live session: when the session ends while fragments are buffered for it,
\* its buffer is removed.
C32_BuffersOfLiveSessions ==
  \A id \in DOMAIN shredded_packets : Has(connections, id)

\* C33: when a SHRED frame arrives for an id whose fragment buffer was started
\* with another declared total, the receiver drops the fragment buffer of the id
\* and closes the session, and delivers no payload assembled from the
\* mismatching fragments.  A buffer that holds fragment 0 only was started by
\* the frame 0 of 2, and the frame that arrives is fragment 1 of 3.
C33_TotalMismatch ==
  [][(/\ Has(shredded_packets, UUID1) /\ Has(connections, UUID1)
      /\ DOMAIN shredded_packets[UUID1] = {0})
       => /\ \A c \in DOMAIN main_sockets :
               (Established(c) /\ MainData(c, MismatchedShred("redirector")))
               => /\ ~Has(shredded_packets', UUID1)
                  /\ ~Has(connections', UUID1)
                  /\ pub_sockets'[connections[UUID1]].state # "open"
                  /\ pub_sockets'[connections[UUID1]].written
                       = pub_sockets[connections[UUID1]].written
          /\ SocketData(MismatchedShred("starter"))
               => /\ ~Has(shredded_packets', UUID1)
                  /\ ~Has(connections', UUID1)
                  /\ conn_sockets'[connections[UUID1]].state # "open"
                  /\ conn_sockets'[connections[UUID1]].written
                       = conn_sockets[connections[UUID1]].written]_vars

\* C34: whenever the control connection of the starter is not connected, the
\* session table of the starter is empty and no backend socket is open: an error
\* or a close of the control connection destroys every backend socket.
C34_NoBackendWhileDisconnected ==
  (program = "starter" /\ socket.state # "open")
    => /\ connections = EmptyMap
       /\ \A b \in DOMAIN conn_sockets : conn_sockets[b].state # "open"

C36_BindFailureContained ==
  [][\A c \in DOMAIN main_sockets, data \in DuplicatePortReads :
       (/\ ports = NULL
        /\ main_sockets[c].state = "open"
        /\ MainData(c, data))
       => /\ process' = "running"
          /\ main_sockets'[c].state = "open"
          /\ ports' # NULL]_vars

\* C37: an error event on one public socket of the redirector, or on one
\* backend socket of the starter, ends that session only: the process keeps
\* running, a CLOSE frame of the id is written on the control connection, the id
\* leaves the table, and the other sessions and the control connection stay as
\* they are.
C37_SocketErrorContained ==
  [][/\ \A p \in DOMAIN pub_sockets :
          (process' # process /\ PublicError(p))
          => /\ process' = "running"
             /\ ~Has(connections', pub_sockets[p].id)
             /\ main_sockets' = Write(main_sockets, pub_sockets[p].owner,
                                      appendHeader("CLOSE", pub_sockets[p].id, <<>>, 0, 0, 0))
             /\ \A q \in DOMAIN pub_sockets : q # p => pub_sockets'[q] = pub_sockets[q]
     /\ \A b \in DOMAIN conn_sockets :
          ("error.message" \in console' /\ ConnError(b))
          => /\ process' = "running"
             /\ ~Has(connections', conn_sockets[b].id)
             /\ socket' = SocketWrite(socket,
                                      starter_appendHeader("CLOSE", conn_sockets[b].id,
                                                           <<>>, 0, 0))
             /\ \A o \in DOMAIN conn_sockets : o # b => conn_sockets'[o] = conn_sockets[o]]_vars

\* C38: no peer accepts END: a received frame of packet type END never makes
\* the receiver write body bytes to a public or a backend socket (or open a
\* backend connection), even when its id is known and its digests are those of
\* its body.
C38_EndNotAccepted ==
  [][/\ pub_sockets' # pub_sockets
          => \A c \in DOMAIN main_sockets :
               ~(Established(c) /\ MainData(c, EndWithBody("redirector")))
     /\ conn_sockets' # conn_sockets
          => ~SocketData(EndWithBody("starter"))]_vars

\* C39: once an id has left the session table of the starter (its backend
\* socket closed, or a CLOSE frame of it was received), the starter opens no
\* second backend connection for that id: no two backend connections were ever
\* opened for one id.
C39_NoSecondBackend ==
  program = "starter"
    => \A a, b \in DOMAIN conn_sockets :
         a < b => conn_sockets[a].id # conn_sockets[b].id

\* C40: the close of a connection to the control port that never
\* authenticated, or that failed authentication, leaves an established control
\* session as it is: the port registry and the public listeners of the session
\* are not changed by it.
C40_StrangerCloseHarmless ==
  [][\A c, o \in DOMAIN main_sockets :
       (/\ o # c
        /\ Established(o) /\ main_sockets[o].state = "open"
        /\ ~Established(c)
        /\ \E error \in BOOLEAN : MainClose(c, error))
       => /\ ports' = ports
          /\ servers' = servers]_vars

====
